---- MODULE Spec2Model ----
(***************************************************************************)
(* Wind power prediction backend: the two Flask applications               *)
(* (app.py, app-with-drive.py), their start-up and their request handlers. *)
(*                                                                         *)
(* Units.  Raw observation fields are integers.  Trigonometric features    *)
(* and predictions are fixed-point with three decimals ("milli"): the      *)
(* float 1.0 is 1000, 0.9 is 900.  Timestamps and log lines are left out:  *)
(* nothing in a handler reads them back.                                   *)
(***************************************************************************)
EXTENDS Integers, Sequences, FiniteSets, TLC

VARIABLES app, pc, model, scaler, pending, req, resp, fed, memo

vars == <<app, pc, model, scaler, pending, req, resp, fed, memo>>

(***************************************************************************)
(* Bounds                                                                  *)
(***************************************************************************)
MaxBatch == 2

(***************************************************************************)
(* Generic helpers                                                         *)
(***************************************************************************)
Range(s) == {s[i] : i \in DOMAIN s}

Reverse(s) == [i \in 1..Len(s) |-> s[Len(s) + 1 - i]]

Filter(s, keep) == SelectSeq(s, LAMBDA x : x \in keep)

RECURSIVE SeqsUpTo(_, _)
SeqsUpTo(S, n) ==
    IF n = 0 THEN {<<>>}
    ELSE LET shorter == SeqsUpTo(S, n - 1)
         IN  shorter \cup {Append(q, x) : q \in {t \in shorter : Len(t) = n - 1}, x \in S}

None == "None"

(***************************************************************************)
(* The field lists, one definition per copy in the source                  *)
(***************************************************************************)
required_fields ==
    << "Location", "Temp_2m", "RelHum_2m", "DP_2m",
       "WS_10m", "WS_100m", "WD_10m", "WD_100m", "WG_10m",
       "hour", "day", "month", "dayofweek", "is_weekend" >>

drive_required_fields ==
    << "Location", "Temp_2m", "RelHum_2m", "DP_2m",
       "WS_10m", "WS_100m", "WD_10m", "WD_100m", "WG_10m",
       "hour", "day", "month", "dayofweek", "is_weekend" >>

feature_list ==
    << "Location", "Temp_2m", "RelHum_2m", "DP_2m",
       "WS_10m", "WS_100m", "WD_10m", "WD_100m", "WG_10m",
       "hour", "day", "month", "dayofweek", "is_weekend",
       "WD_10m_sin", "WD_10m_cos", "WD_100m_sin", "WD_100m_cos",
       "WS_10m_sq", "WS_10m_cu", "WS_100m_sq", "WS_100m_cu",
       "temp_humidity", "temp_dew_diff", "wind_shear" >>

batch_feature_list ==
    << "Location", "Temp_2m", "RelHum_2m", "DP_2m",
       "WS_10m", "WS_100m", "WD_10m", "WD_100m", "WG_10m",
       "hour", "day", "month", "dayofweek", "is_weekend",
       "WD_10m_sin", "WD_10m_cos", "WD_100m_sin", "WD_100m_cos",
       "WS_10m_sq", "WS_10m_cu", "WS_100m_sq", "WS_100m_cu",
       "temp_humidity", "temp_dew_diff", "wind_shear" >>

drive_feature_list ==
    << "Location", "Temp_2m", "RelHum_2m", "DP_2m",
       "WS_10m", "WS_100m", "WD_10m", "WD_100m", "WG_10m",
       "hour", "day", "month", "dayofweek", "is_weekend",
       "WD_10m_sin", "WD_10m_cos", "WD_100m_sin", "WD_100m_cos",
       "WS_10m_sq", "WS_10m_cu", "WS_100m_sq", "WS_100m_cu",
       "temp_humidity", "temp_dew_diff", "wind_shear" >>

(***************************************************************************)
(* Feature engineering: the column assignments, in source order.  Each     *)
(* step reads columns a and b of the frame and writes column col.          *)
(***************************************************************************)
Step(c, o, x, y) == [col |-> c, op |-> o, a |-> x, b |-> y]

feature_steps ==
    << Step("WD_10m_sin", "sin", "WD_10m", "WD_10m"),
       Step("WD_10m_cos", "cos", "WD_10m", "WD_10m"),
       Step("WD_100m_sin", "sin", "WD_100m", "WD_100m"),
       Step("WD_100m_cos", "cos", "WD_100m", "WD_100m"),
       Step("WS_10m_sq", "sq", "WS_10m", "WS_10m"),
       Step("WS_10m_cu", "cu", "WS_10m", "WS_10m"),
       Step("WS_100m_sq", "sq", "WS_100m", "WS_100m"),
       Step("WS_100m_cu", "cu", "WS_100m", "WS_100m"),
       Step("temp_humidity", "mul", "Temp_2m", "RelHum_2m"),
       Step("temp_dew_diff", "sub", "Temp_2m", "DP_2m"),
       Step("wind_shear", "sub", "WS_100m", "WS_10m") >>

batch_feature_steps ==
    << Step("WD_10m_sin", "sin", "WD_10m", "WD_10m"),
       Step("WD_10m_cos", "cos", "WD_10m", "WD_10m"),
       Step("WD_100m_sin", "sin", "WD_100m", "WD_100m"),
       Step("WD_100m_cos", "cos", "WD_100m", "WD_100m"),
       Step("WS_10m_sq", "sq", "WS_10m", "WS_10m"),
       Step("WS_10m_cu", "cu", "WS_10m", "WS_10m"),
       Step("WS_100m_sq", "sq", "WS_100m", "WS_100m"),
       Step("WS_100m_cu", "cu", "WS_100m", "WS_100m"),
       Step("temp_humidity", "mul", "Temp_2m", "RelHum_2m"),
       Step("temp_dew_diff", "sub", "Temp_2m", "DP_2m"),
       Step("wind_shear", "sub", "WS_100m", "WS_10m") >>

drive_feature_steps ==
    << Step("WD_10m_sin", "sin", "WD_10m", "WD_10m"),
       Step("WD_10m_cos", "cos", "WD_10m", "WD_10m"),
       Step("WD_100m_sin", "sin", "WD_100m", "WD_100m"),
       Step("WD_100m_cos", "cos", "WD_100m", "WD_100m"),
       Step("WS_10m_sq", "sq", "WS_10m", "WS_10m"),
       Step("WS_10m_cu", "cu", "WS_10m", "WS_10m"),
       Step("WS_100m_sq", "sq", "WS_100m", "WS_100m"),
       Step("WS_100m_cu", "cu", "WS_100m", "WS_100m"),
       Step("temp_humidity", "mul", "Temp_2m", "RelHum_2m"),
       Step("temp_dew_diff", "sub", "Temp_2m", "DP_2m"),
       Step("wind_shear", "sub", "WS_100m", "WS_10m") >>

\* sin of a whole number of degrees, in milli, for the multiples of 30.
\* np.deg2rad takes any real: the angle is reduced modulo 360, never rejected.
SinDeg(d) ==
    LET r == ((d % 360) + 360) % 360
        q == IF r <= 90 THEN r
             ELSE IF r <= 180 THEN 180 - r
             ELSE IF r <= 270 THEN r - 180
             ELSE 360 - r
        m == CASE q = 0  -> 0
               [] q = 30 -> 500
               [] q = 60 -> 866
               [] q = 90 -> 1000
    IN  IF r <= 180 THEN m ELSE 0 - m

CosDeg(d) == SinDeg(d + 90)

\* the right-hand sides with the operands of a difference exchanged
EvalReversedDifference(op, x, y) ==
    CASE op = "sin" -> SinDeg(x)
      [] op = "cos" -> CosDeg(x)
      [] op = "sq"  -> x * x
      [] op = "cu"  -> x * x * x
      [] op = "mul" -> x * y
      [] op = "sub" -> y - x

Eval(op, x, y) ==
    CASE op = "sin" -> SinDeg(x)
      [] op = "cos" -> CosDeg(x)
      [] op = "sq"  -> x * x
      [] op = "cu"  -> x * x * x
      [] op = "mul" -> x * y
      [] op = "sub" -> x - y

(***************************************************************************)
(* A JSON object and the one-row DataFrame made of it: the column names in *)
(* insertion order and the value of each column.                           *)
(***************************************************************************)
Frame(keys, val) == [cols |-> keys, val |-> val]

HasCol(df, c) == c \in Range(df.cols)

\* input_df[c] = x : overwrite in place, or append a new last column
SetCol(df, c, x) ==
    [cols |-> IF HasCol(df, c) THEN df.cols ELSE Append(df.cols, c),
     val  |-> [k \in (DOMAIN df.val) \cup {c} |-> IF k = c THEN x ELSE df.val[k]]]

NoExc == [type |-> "", keys |-> <<>>]

KeyError(ks) == [type |-> "KeyError", keys |-> ks]

TypeError == [type |-> "TypeError", keys |-> <<>>]

\* The assignments steps[i..]: the first read of an absent column raises
\* KeyError naming that column and nothing after it runs.
RECURSIVE ApplySteps(_, _, _)
ApplySteps(df, steps, i) ==
    IF i > Len(steps) THEN [exc |-> NoExc, df |-> df]
    ELSE LET s == steps[i]
         IN  IF ~HasCol(df, s.a) THEN [exc |-> KeyError(<<s.a>>), df |-> df]
             ELSE IF ~HasCol(df, s.b) THEN [exc |-> KeyError(<<s.b>>), df |-> df]
             ELSE ApplySteps(SetCol(df, s.col, Eval(s.op, df.val[s.a], df.val[s.b])),
                             steps, i + 1)

\* the first Len(names) columns of the frame, by position
SelectColsByPosition(df, names) ==
    LET n    == IF Len(df.cols) < Len(names) THEN Len(df.cols) ELSE Len(names)
        cols == SubSeq(df.cols, 1, n)
    IN  [exc |-> NoExc, df |-> [cols |-> cols, val |-> [k \in Range(cols) |-> df.val[k]]]]

\* X = input_df[names] : the named columns in the order of names; KeyError
\* lists every name that is no column.
SelectCols(df, names) ==
    LET absent == SelectSeq(names, LAMBDA c : ~HasCol(df, c))
    IN  IF absent # <<>> THEN [exc |-> KeyError(absent), df |-> df]
        ELSE [exc |-> NoExc,
              df  |-> [cols |-> names, val |-> [k \in Range(names) |-> df.val[k]]]]

\* X.values, and the array scaler.transform reads off X: the row by position
Values(df) == [i \in 1..Len(df.cols) |-> df.val[df.cols[i]]]

(***************************************************************************)
(* The artifacts.  model.pkl and scaler.pkl are opaque to the application: *)
(* a handle is None or one of the fitted objects a file may hold.  Each    *)
(* fitted object is a fixed function of the row it is given, and its raw   *)
(* output is not confined to [0, 1].  "rf_a" depends on every column and   *)
(* on its position; "rf_b" is piecewise constant, as a tree is: it splits  *)
(* on WS_10m (column 5) and on WD_10m_sin (column 15).                     *)
(***************************************************************************)
Models == {"rf_a", "rf_b"}

Scalers == {"std"}

RECURSIVE Dot(_, _)
Dot(row, i) == IF i > Len(row) THEN 0 ELSE i * row[i] + Dot(row, i + 1)

\* model.predict(X_scaled)[0], in milli
ModelPredict(m, row) ==
    IF m = "rf_a" THEN (((Dot(row, 1) % 1700) + 1700) % 1700) - 300
    ELSE IF row[5] >= 10 THEN 1200
    ELSE IF row[15] > 0 THEN 640
    ELSE 0 - 150

\* scaler.transform(X): column-wise (x - mean_i), one row in, one row out
ScalerTransform(s, row) == [i \in 1..Len(row) |-> row[i] - 3 * i]

\* the bound from above alone
ClipAboveOnly(x) == IF x > 1000 THEN 1000 ELSE x

\* np.clip(prediction, 0.0, 1.0)
Clip(x) == IF x < 0 THEN 0 ELSE IF x > 1000 THEN 1000 ELSE x

\* 0.9 of min(0.9, ...)
DemoCap == 900

\* min(0.9, (wind_speed / 15) ** 1.5), in milli, rounded down.  A negative
\* base under the exponent 1.5 is a complex number in Python 3, and
\* min(0.9, <complex>) raises TypeError.
\* (r/1000)^2 <= (ws/15)^3  <=>  27 r^2 <= 8000 ws^3
DemoPrediction(ws) ==
    IF ws < 0 THEN [exc |-> TypeError, value |-> 0]
    ELSE [exc   |-> NoExc,
          value |-> CHOOSE r \in 0..DemoCap :
                        /\ 27 * r * r <= 8000 * ws * ws * ws
                        /\ \/ r = DemoCap
                           \/ 27 * (r + 1) * (r + 1) > 8000 * ws * ws * ws]

(***************************************************************************)
(* Responses (status code and the JSON body's fields; names are the field  *)
(* names an error message lists) and the calls a handler makes on the      *)
(* artifacts: callee, the names of the columns the row was built from, and *)
(* the row.                                                                *)
(***************************************************************************)
Response(code, kind, st, err, names, preds, loaded) ==
    [status |-> code, kind |-> kind, body_status |-> st, error |-> err,
     names |-> names, predictions |-> preds, count |-> Len(preds),
     model_loaded |-> loaded]

ErrorResponse(code, st, err, names) ==
    Response(code, "error", st, err, names, <<>>, FALSE)

\* str(e) of the exception caught by `except Exception`
ExceptionResponse(exc) == ErrorResponse(500, "error", exc.type, exc.keys)

Call(callee, cols, row) == [callee |-> callee, cols |-> cols, row |-> row]

Outcome(r, calls) == [resp |-> r, fed |-> calls]

\* One record through feature engineering, selection, scaling, inference
\* and clipping, as the body of predict (app.py) has it after validation.
\* Yields the exception raised, the clipped prediction and the calls made.
InferOne(m, s, data, steps, names) ==
    LET eng == ApplySteps(Frame(data.keys, data.val), steps, 1)
        sel == SelectCols(eng.df, names)
        X   == sel.df
        X_scaled == IF s # None THEN ScalerTransform(s, Values(X)) ELSE Values(X)
        scalerCalls == IF s # None THEN <<Call("scaler", X.cols, Values(X))>> ELSE <<>>
        demo == DemoPrediction(data.val["WS_10m"])
    IN  IF eng.exc # NoExc THEN [exc |-> eng.exc, value |-> 0, fed |-> <<>>]
        ELSE IF sel.exc # NoExc THEN [exc |-> sel.exc, value |-> 0, fed |-> <<>>]
        ELSE IF m # None
             THEN [exc |-> NoExc, value |-> Clip(ModelPredict(m, X_scaled)),
                   fed |-> Append(scalerCalls, Call("model", X.cols, X_scaled))]
        ELSE IF demo.exc # NoExc THEN [exc |-> demo.exc, value |-> 0, fed |-> scalerCalls]
        ELSE [exc |-> NoExc, value |-> Clip(demo.value), fed |-> scalerCalls]

(***************************************************************************)
(* Request bodies.  request.get_json() yields None ("none": the body is    *)
(* the JSON null), a JSON object ("object": items holds that object) or a  *)
(* JSON list of objects ("list").  An object is its keys in the order sent *)
(* and their values.                                                       *)
(***************************************************************************)
Body(shape, items) == [shape |-> shape, items |-> items]

NoBody == Body("none", <<>>)

\* `not data`
Falsy(body) ==
    \/ body.shape = "none"
    \/ body.shape = "object" /\ body.items[1].keys = <<>>
    \/ body.shape = "list" /\ body.items = <<>>

\* [f for f in required_fields if f not in data]
MissingFieldsFirstOnly(required, data) ==
    LET absent == SelectSeq(required, LAMBDA f : f \notin Range(data.keys))
    IN  IF absent = <<>> THEN <<>> ELSE <<absent[1]>>

MissingFields(required, data) ==
    SelectSeq(required, LAMBDA f : f \notin Range(data.keys))

(***************************************************************************)
(* POST /api/predict of app.py                                             *)
(***************************************************************************)
predict(m, s, body) ==
    LET data == body.items[1]
        missing_fields == MissingFields(required_fields, data)
        r == InferOne(m, s, data, feature_steps, feature_list)
    IN  IF Falsy(body)
        THEN Outcome(ErrorResponse(400, "", "No data provided", <<>>), <<>>)
        ELSE IF missing_fields # <<>>
        THEN Outcome(ErrorResponse(400, "", "Missing fields", missing_fields), <<>>)
        ELSE IF r.exc # NoExc
        THEN Outcome(ExceptionResponse(r.exc), r.fed)
        ELSE Outcome(Response(200, "prediction", "success", "", <<>>, <<r.value>>, FALSE),
                     r.fed)

(***************************************************************************)
(* POST /api/predict-batch of app.py: the loop over the items, then the    *)
(* response.  An exception at any item leaves the loop for the handler's   *)
(* `except Exception`.                                                     *)
(***************************************************************************)
\* the loop with the item's failure caught inside it: the predictions made
\* so far are returned
RECURSIVE BatchLoopPartial(_, _, _, _, _, _)
BatchLoopPartial(m, s, items, i, predictions, calls) ==
    IF i > Len(items)
    THEN Outcome(Response(200, "batch", "success", "", <<>>, predictions, FALSE), calls)
    ELSE LET r == InferOne(m, s, items[i], batch_feature_steps, batch_feature_list)
         IN  IF r.exc # NoExc
             THEN Outcome(Response(200, "batch", "success", "", <<>>, predictions, FALSE),
                          calls \o r.fed)
             ELSE BatchLoopPartial(m, s, items, i + 1, Append(predictions, r.value),
                                   calls \o r.fed)

RECURSIVE BatchLoop(_, _, _, _, _, _)
BatchLoop(m, s, items, i, predictions, calls) ==
    IF i > Len(items)
    THEN Outcome(Response(200, "batch", "success", "", <<>>, predictions, FALSE), calls)
    ELSE LET r == InferOne(m, s, items[i], batch_feature_steps, batch_feature_list)
         IN  IF r.exc # NoExc
             THEN Outcome(ExceptionResponse(r.exc), calls \o r.fed)
             ELSE BatchLoop(m, s, items, i + 1, Append(predictions, r.value),
                            calls \o r.fed)

\* the handler with its predictions list kept at module level: the list
\* still holds what an earlier request left in it
predict_batch_shared(m, s, body) ==
    IF body.shape # "list"
    THEN Outcome(ErrorResponse(400, "", "Expected list of prediction objects", <<>>), <<>>)
    ELSE BatchLoop(m, s, body.items, 1,
                   IF memo = <<>> THEN <<>> ELSE memo[1].resp.predictions, <<>>)

predict_batch(m, s, body) ==
    IF body.shape # "list"
    THEN Outcome(ErrorResponse(400, "", "Expected list of prediction objects", <<>>), <<>>)
    ELSE BatchLoop(m, s, body.items, 1, <<>>, <<>>)

\* predict() of app-with-drive.py with the handle check moved behind the
\* validation of the request body
drive_predict_validate_first(m, s, body) ==
    LET data == body.items[1]
        missing == MissingFields(drive_required_fields, data)
        r == InferOne(m, s, data, drive_feature_steps, drive_feature_list)
    IN  IF Falsy(body)
        THEN Outcome(ErrorResponse(400, "", "No data provided", <<>>), <<>>)
        ELSE IF missing # <<>>
        THEN Outcome(ErrorResponse(400, "", "Missing fields", missing), <<>>)
        ELSE IF m = None \/ s = None
        THEN Outcome(ErrorResponse(503, "error",
                                   "Model not loaded. Please check server logs.", <<>>), <<>>)
        ELSE IF r.exc # NoExc
        THEN Outcome(ExceptionResponse(r.exc), r.fed)
        ELSE Outcome(Response(200, "prediction", "success", "", <<>>, <<r.value>>, FALSE),
                     r.fed)

(***************************************************************************)
(* POST /api/predict of app-with-drive.py                                  *)
(***************************************************************************)
drive_predict(m, s, body) ==
    LET data == body.items[1]
        missing == MissingFields(drive_required_fields, data)
        r == InferOne(m, s, data, drive_feature_steps, drive_feature_list)
    IN  IF m = None \/ s = None
        THEN Outcome(ErrorResponse(503, "error",
                                   "Model not loaded. Please check server logs.", <<>>), <<>>)
        ELSE IF Falsy(body)
        THEN Outcome(ErrorResponse(400, "", "No data provided", <<>>), <<>>)
        ELSE IF missing # <<>>
        THEN Outcome(ErrorResponse(400, "", "Missing fields", missing), <<>>)
        ELSE IF r.exc # NoExc
        THEN Outcome(ExceptionResponse(r.exc), r.fed)
        ELSE Outcome(Response(200, "prediction", "success", "", <<>>, <<r.value>>, FALSE),
                     r.fed)

(***************************************************************************)
(* GET /api/health and GET /api/model-info                                 *)
(***************************************************************************)
health_check(m, s) ==
    Outcome(Response(200, "health", "healthy", "", <<>>, <<>>, m # None), <<>>)

drive_health_check(m, s) ==
    LET model_loaded == m # None /\ s # None
    IN  Outcome(Response(IF model_loaded THEN 200 ELSE 503, "health",
                         IF model_loaded THEN "healthy" ELSE "unhealthy",
                         "", <<>>, <<>>, model_loaded), <<>>)

model_info(m, s) ==
    Outcome(Response(200, "model_info", "", "", <<>>, <<>>, FALSE), <<>>)

(***************************************************************************)
(* Start-up                                                                *)
(***************************************************************************)
\* What joblib.load finds at a path
ModelFiles == {"missing", "corrupt"} \cup Models

ScalerFiles == {"missing", "corrupt"} \cup Scalers

\* load_model() whose handler of FileNotFoundError leaves the model it has
\* just loaded in place
load_model_keeping(modelFile, scalerFile) ==
    IF modelFile = "missing" THEN [model |-> None, scaler |-> None, returned |-> TRUE]
    ELSE IF modelFile = "corrupt" THEN [model |-> None, scaler |-> None, returned |-> FALSE]
    ELSE IF scalerFile = "missing" THEN [model |-> modelFile, scaler |-> None, returned |-> TRUE]
    ELSE IF scalerFile = "corrupt"
         THEN [model |-> modelFile, scaler |-> None, returned |-> FALSE]
    ELSE [model |-> modelFile, scaler |-> scalerFile, returned |-> TRUE]

\* load_model() of app.py on the two files: the handles it leaves and
\* whether it returned (FileNotFoundError is caught and resets both handles;
\* any other exception of joblib.load propagates out of init_app and ends
\* the process before app.run).
load_model(modelFile, scalerFile) ==
    IF modelFile = "missing" THEN [model |-> None, scaler |-> None, returned |-> TRUE]
    ELSE IF modelFile = "corrupt" THEN [model |-> None, scaler |-> None, returned |-> FALSE]
    ELSE IF scalerFile = "missing" THEN [model |-> None, scaler |-> None, returned |-> TRUE]
    ELSE IF scalerFile = "corrupt"
         THEN [model |-> modelFile, scaler |-> None, returned |-> FALSE]
    ELSE [model |-> modelFile, scaler |-> scalerFile, returned |-> TRUE]

\* init_app() of app-with-drive.py on what model_loader obtains: the pair
\* is assigned in one statement, after both loads; any exception of
\* get_model_and_scaler leaves the handles as they were and returns False,
\* and __main__ then exits.
drive_init_app(modelFile, scalerFile) ==
    IF modelFile \in Models /\ scalerFile \in Scalers
    THEN [model |-> modelFile, scaler |-> scalerFile, returned |-> TRUE]
    ELSE [model |-> None, scaler |-> None, returned |-> FALSE]

(***************************************************************************)
(* The requests clients send                                               *)
(***************************************************************************)
BaseObs ==
    [Location |-> 1, Temp_2m |-> 20, RelHum_2m |-> 50, DP_2m |-> 10,
     WS_10m |-> 2, WS_100m |-> 5, WD_10m |-> 90, WD_100m |-> 180, WG_10m |-> 7,
     hour |-> 13, day |-> 15, month |-> 6, dayofweek |-> 3, is_weekend |-> 0]

\* wind speed and direction are not range-checked: negative speeds and
\* directions outside [0, 360) are sent too
WS10Values == {0 - 3, 0, 2, 20}

WD10Values == {90, 0 - 30}

Obs(ws, wd) == [BaseObs EXCEPT !.WS_10m = ws, !.WD_10m = wd]

Observations == {Obs(ws, wd) : ws \in WS10Values, wd \in WD10Values}

\* keys a client may add to the 14 fields, one of them named like a
\* derived column
ExtraValues == [note |-> 99, WS_10m_sq |-> 77777]

Layouts == {"canonical", "reversed", "extra_last", "extra_first"}

LayoutKeys(l) ==
    CASE l = "canonical"   -> required_fields
      [] l = "reversed"    -> Reverse(required_fields)
      [] l = "extra_last"  -> Append(required_fields, "note")
      [] l = "extra_first" -> <<"WS_10m_sq">> \o required_fields

\* the JSON object of observation obs without the fields of missing
Object(obs, missing, l) ==
    LET keys == SelectSeq(LayoutKeys(l), LAMBDA k : k \notin missing)
    IN  [keys |-> keys,
         val  |-> [k \in Range(keys) |->
                      IF k \in DOMAIN obs THEN obs[k] ELSE ExtraValues[k]]]

RequiredSet == Range(required_fields)

MissingSets ==
    {{f} : f \in RequiredSet}
        \cup {{"RelHum_2m", "hour"}, {"Location", "is_weekend"},
              RequiredSet \ {"Location"}, RequiredSet}

ValidObjects == {Object(o, {}, l) : o \in Observations, l \in Layouts}

InvalidObjects == {Object(BaseObs, M, l) : M \in MissingSets, l \in {"canonical", "extra_last"}}

PredictBodies ==
    {NoBody} \cup {Body("object", <<o>>) : o \in ValidObjects \cup InvalidObjects}

BatchItems ==
    {Object(BaseObs, {}, "canonical"), Object(Obs(20, 0 - 30), {}, "reversed"),
     Object(Obs(0 - 3, 90), {}, "canonical"), Object(BaseObs, {"RelHum_2m"}, "canonical")}

BatchBodies ==
    {NoBody, Body("object", <<Object(BaseObs, {}, "canonical")>>)}
        \cup {Body("list", q) : q \in SeqsUpTo(BatchItems, MaxBatch)}

Request(endpoint, body) == [endpoint |-> endpoint, body |-> body]

Requests ==
    {Request("predict", b) : b \in PredictBodies}
        \cup {Request("predict_batch", b) : b \in BatchBodies}
        \cup {Request("health", NoBody), Request("model_info", NoBody)}

\* the requests whose outcome a client keeps to compare a later one with
ProbeRequests ==
    {Request("predict", Body("object", <<Object(BaseObs, {}, "canonical")>>)),
     Request("predict", Body("object", <<Object(Obs(0 - 3, 90), {}, "canonical")>>)),
     Request("predict_batch",
             Body("list", <<Object(BaseObs, {}, "canonical"),
                            Object(Obs(20, 0 - 30), {}, "reversed")>>))}

(***************************************************************************)
(* The state machine                                                       *)
(***************************************************************************)
NoResponse == Response(0, "", "", "", <<>>, <<>>, FALSE)

\* @app.errorhandler(404): a route the application does not register
not_found == Outcome(ErrorResponse(404, "", "Endpoint not found", <<>>), <<>>)

Init ==
    /\ app \in {"local", "drive"}
    /\ pc = "imported"
    /\ model = None
    /\ scaler = None
    /\ pending = FALSE
    /\ req = Request("", NoBody)
    /\ resp = NoResponse
    /\ fed = <<>>
    /\ memo = <<>>

\* python app.py: init_app() -> load_model(), then app.run()
LoadModel ==
    /\ app = "local"
    /\ pc = "imported"
    /\ \E mf \in ModelFiles, sf \in ScalerFiles :
          LET r == load_model(mf, sf)
          IN  /\ model' = r.model
              /\ scaler' = r.scaler
              /\ pc' = IF r.returned THEN "serving" ELSE "exited"
    /\ UNCHANGED <<app, pending, req, resp, fed, memo>>

\* python app-with-drive.py: init_app(), then app.run() or exit(1)
DriveInitApp ==
    /\ app = "drive"
    /\ pc = "imported"
    /\ \E mf \in ModelFiles, sf \in ScalerFiles :
          LET r == drive_init_app(mf, sf)
          IN  /\ model' = r.model
              /\ scaler' = r.scaler
              /\ pc' = IF r.returned THEN "serving" ELSE "exited"
    /\ UNCHANGED <<app, pending, req, resp, fed, memo>>

\* The module's `app` object served by a WSGI server that imports it:
\* the __main__ block does not run, init_app is never called.
ServeImported ==
    /\ pc = "imported"
    /\ pc' = "serving"
    /\ UNCHANGED <<app, model, scaler, pending, req, resp, fed, memo>>

\* A client's request reaches the application; its response is not made yet.
Receive ==
    /\ pc = "serving"
    /\ ~pending
    /\ \E r \in Requests : req' = r
    /\ pending' = TRUE
    /\ resp' = NoResponse
    /\ fed' = <<>>
    /\ UNCHANGED <<app, pc, model, scaler, memo>>

\* a handler that drops the handles when it answers an error
HandleResetting(out) ==
    /\ pending
    /\ pending' = FALSE
    /\ resp' = out.resp
    /\ fed' = out.fed
    /\ memo' = memo
    /\ IF out.resp.status = 500
       THEN model' = None /\ scaler' = None
       ELSE UNCHANGED <<model, scaler>>
    /\ UNCHANGED <<app, pc, req>>

\* The handler of the pending request ran, with outcome out.  No handler
\* has a `global` statement: the handles are left alone.  memo is the
\* client's note of one earlier probe request and its outcome, and of
\* whether a different request was handled since.
Handle(out) ==
    /\ pending
    /\ pending' = FALSE
    /\ resp' = out.resp
    /\ fed' = out.fed
    /\ \/ memo' = [i \in DOMAIN memo |->
                      [memo[i] EXCEPT !.between = @ \/ req # memo[i].req]]
       \/ /\ req \in ProbeRequests
          /\ memo' = <<[req |-> req, model |-> model, scaler |-> scaler,
                        resp |-> out.resp, fed |-> out.fed, between |-> FALSE]>>
    /\ UNCHANGED <<app, pc, model, scaler, req>>

Predict ==
    /\ app = "local"
    /\ req.endpoint = "predict"
    /\ Handle(predict(model, scaler, req.body))

PredictBatch ==
    /\ app = "local"
    /\ req.endpoint = "predict_batch"
    /\ Handle(predict_batch(model, scaler, req.body))

DrivePredict ==
    /\ app = "drive"
    /\ req.endpoint = "predict"
    /\ Handle(drive_predict(model, scaler, req.body))

HealthCheck ==
    /\ app = "local"
    /\ req.endpoint = "health"
    /\ Handle(health_check(model, scaler))

DriveHealthCheck ==
    /\ app = "drive"
    /\ req.endpoint = "health"
    /\ Handle(drive_health_check(model, scaler))

ModelInfo ==
    /\ req.endpoint = "model_info"
    /\ Handle(model_info(model, scaler))

\* app-with-drive.py registers no /api/predict-batch route
NotFound ==
    /\ app = "drive"
    /\ req.endpoint = "predict_batch"
    /\ Handle(not_found)

Serve ==
    \/ Receive
    \/ Predict
    \/ PredictBatch
    \/ DrivePredict
    \/ HealthCheck
    \/ DriveHealthCheck
    \/ ModelInfo
    \/ NotFound

Next ==
    \/ LoadModel
    \/ DriveInitApp
    \/ ServeImported
    \/ Serve

Spec == Init /\ [][Next]_vars

\* Handlers called with any pair of handles in place, as when the two
\* artifacts are handed to the module directly (each may be absent).
InitInjected ==
    /\ app \in {"local", "drive"}
    /\ pc = "serving"
    /\ model \in {None} \cup Models
    /\ scaler \in {None} \cup Scalers
    /\ pending = FALSE
    /\ req = Request("", NoBody)
    /\ resp = NoResponse
    /\ fed = <<>>
    /\ memo = <<>>

SpecInjected == InitInjected /\ [][Serve]_vars

(***************************************************************************)
(* Properties                                                              *)
(***************************************************************************)
\* a response to req has been made
Done == pc = "serving" /\ ~pending /\ req.endpoint # ""

Complete(object) == RequiredSet \subseteq Range(object.keys)

Absent(object) == RequiredSet \ Range(object.keys)

SingleObject == req.endpoint = "predict" /\ req.body.shape = "object"

InUnit(p) == 0 <= p /\ p <= 1000

\* the configurations in which /api/predict answers with predictions
AnswersPredictions == app = "local" \/ (model # None /\ scaler # None)

\* C1: every observation with all 14 fields present and numeric, whatever
\* its wind speed and direction, gets a success response whose prediction p
\* satisfies 0.0 <= p <= 1.0, in every configuration that answers predictions.
C1_PredictInUnit ==
    (Done /\ SingleObject /\ Complete(req.body.items[1]) /\ AnswersPredictions)
        => /\ resp.status = 200
           /\ Len(resp.predictions) = 1
           /\ InUnit(resp.predictions[1])

ExpectedColumns ==
    << "Location", "Temp_2m", "RelHum_2m", "DP_2m", "WS_10m", "WS_100m",
       "WD_10m", "WD_100m", "WG_10m", "hour", "day", "month", "dayofweek",
       "is_weekend", "WD_10m_sin", "WD_10m_cos", "WD_100m_sin", "WD_100m_cos",
       "WS_10m_sq", "WS_10m_cu", "WS_100m_sq", "WS_100m_cu",
       "temp_humidity", "temp_dew_diff", "wind_shear" >>

\* C2: every row handed to scaler.transform or model.predict, on the single
\* path, the batch path and the Drive-backed app, is made of exactly the 25
\* named columns in the listed order, whatever the key order and the extra
\* keys of the submitted object; on the single path the 14 raw columns of
\* an unscaled row carry the submitted values of the fields of those names.
C2_FeatureOrder ==
    \A i \in DOMAIN fed :
        /\ fed[i].cols = ExpectedColumns
        /\ Len(fed[i].row) = 25
        /\ (SingleObject /\ (fed[i].callee = "scaler" \/ scaler = None))
              => \A j \in 1..14 : fed[i].row[j] = req.body.items[1].val[ExpectedColumns[j]]

C2_Witness ==
    /\ Done
    /\ SingleObject
    /\ Complete(req.body.items[1])
    /\ req.body.items[1].keys[1] \in {"WS_10m_sq", "is_weekend"}
    /\ Len(fed) = 2

\* C3 as claimed: an observation lacking a non-empty set M of required
\* fields (the empty record included) is answered 400 with a message naming
\* exactly the fields of M, and nothing is fed to scaler or model.
C3_AsClaimed ==
    (Done /\ SingleObject /\ Absent(req.body.items[1]) # {})
        => /\ resp.status = 400
           /\ Range(resp.names) = Absent(req.body.items[1])
           /\ fed = <<>>

\* C3 amended: a non-empty JSON object lacking a non-empty set M of required
\* fields is answered 400 "Missing fields" naming every field of M and no
\* other, in the order of required_fields, once the handler reads the body
\* (app-with-drive.py reads it only while model and scaler are loaded and
\* answers 503 otherwise); an empty object is answered 400 "No data
\* provided", naming no field.  In all these cases nothing is fed to scaler
\* or model.
C3_MissingFieldsNamed ==
    (Done /\ SingleObject /\ Absent(req.body.items[1]) # {})
        => /\ fed = <<>>
           /\ resp.predictions = <<>>
           /\ IF app = "drive" /\ (model = None \/ scaler = None)
              THEN resp.status = 503 /\ resp.names = <<>>
              ELSE IF req.body.items[1].keys = <<>>
              THEN resp.status = 400 /\ resp.error = "No data provided" /\ resp.names = <<>>
              ELSE /\ resp.status = 400
                   /\ resp.error = "Missing fields"
                   /\ resp.names = Filter(ExpectedColumns, Absent(req.body.items[1]))

C3_Witness ==
    /\ Done
    /\ SingleObject
    /\ Absent(req.body.items[1]) = {"RelHum_2m", "hour"}
    /\ resp.status = 400
    /\ resp.names = <<"RelHum_2m", "hour">>

ListOfComplete ==
    /\ req.endpoint = "predict_batch"
    /\ req.body.shape = "list"
    /\ \A i \in DOMAIN req.body.items : Complete(req.body.items[i])

\* what /api/predict answers for the object alone, under the same handles
Alone(object) == predict(model, scaler, Body("object", <<object>>)).resp

\* C4: for a list of N observations that each hold all 14 fields, the batch
\* response carries exactly N predictions, the i-th equal to the prediction
\* /api/predict returns for the i-th observation alone.
C4_BatchMatchesSingle ==
    (Done /\ app = "local" /\ ListOfComplete)
        => /\ resp.status = 200
           /\ Len(resp.predictions) = Len(req.body.items)
           /\ \A i \in DOMAIN req.body.items :
                 /\ Alone(req.body.items[i]).status = 200
                 /\ resp.predictions[i] = Alone(req.body.items[i]).predictions[1]

\* processing the item on the batch path raises
Raises(item) ==
    InferOne(model, scaler, item, batch_feature_steps, batch_feature_list).exc # NoExc

\* C5: a batch in which the processing of some item raises, at any position,
\* is answered with an error that carries no prediction at all; a success
\* response means no item raised and carries one prediction per item.
C5_BatchAllOrNothing ==
    (Done /\ app = "local" /\ req.endpoint = "predict_batch" /\ req.body.shape = "list")
        => /\ (\E i \in DOMAIN req.body.items : Raises(req.body.items[i]))
                 => (resp.status = 500 /\ resp.predictions = <<>> /\ resp.count = 0)
           /\ resp.status = 200
                 => /\ \A i \in DOMAIN req.body.items : ~Raises(req.body.items[i])
                    /\ Len(resp.predictions) = Len(req.body.items)

C5_Witness ==
    /\ Done
    /\ app = "local"
    /\ req.endpoint = "predict_batch"
    /\ req.body.shape = "list"
    /\ Len(req.body.items) = 2
    /\ ~Raises(req.body.items[1])
    /\ Raises(req.body.items[2])
    /\ fed # <<>>
    /\ resp.status = 500

\* C6: a request of app.py in which an object lacks a required field is
\* answered 400, on /api/predict and on /api/predict-batch alike.
C6_MissingIs400 ==
    (/\ Done
     /\ app = "local"
     /\ \/ SingleObject
        \/ req.endpoint = "predict_batch" /\ req.body.shape = "list"
     /\ \E i \in DOMAIN req.body.items : ~Complete(req.body.items[i]))
        => resp.status = 400

\* C7: while the model handle is None, no request for a prediction that
\* holds all 14 fields is answered with a success response carrying a
\* prediction.
C7_NoModelNoPrediction ==
    (/\ Done
     /\ model = None
     /\ \/ SingleObject /\ Complete(req.body.items[1])
        \/ app = "local" /\ ListOfComplete)
        => ~(resp.status = 200 /\ resp.predictions # <<>>)

\* what a client of app.py can see of the service under handles m and s:
\* the answer to request r, the health answer and the model-info answer
ClientView(m, s, r) ==
    << predict(m, s, r.body).resp, health_check(m, s).resp, model_info(m, s).resp >>

UnscaledCalls == SelectSeq(fed, LAMBDA c : c.callee = "scaler" \/ scaler = None)

\* sine and cosine of the directions the observations use, in milli
ExpectedSin(d) ==
    CASE d = 90 -> 1000
      [] d = 180 -> 0
      [] d = 0 - 30 -> 0 - 500

ExpectedCos(d) ==
    CASE d = 90 -> 0
      [] d = 180 -> 0 - 1000
      [] d = 0 - 30 -> 866

\* the 25 features of the formulas, from the raw fields v of one observation
ExpectedRow(v) ==
    << v["Location"], v["Temp_2m"], v["RelHum_2m"], v["DP_2m"],
       v["WS_10m"], v["WS_100m"], v["WD_10m"], v["WD_100m"], v["WG_10m"],
       v["hour"], v["day"], v["month"], v["dayofweek"], v["is_weekend"],
       ExpectedSin(v["WD_10m"]), ExpectedCos(v["WD_10m"]),
       ExpectedSin(v["WD_100m"]), ExpectedCos(v["WD_100m"]),
       v["WS_10m"] ^ 2, v["WS_10m"] ^ 3, v["WS_100m"] ^ 2, v["WS_100m"] ^ 3,
       v["Temp_2m"] * v["RelHum_2m"], v["Temp_2m"] - v["DP_2m"],
       v["WS_100m"] - v["WS_10m"] >>

\* C11: every unscaled row handed on, on the single path, the batch path and
\* in the Drive-backed app, holds the 14 raw fields of its own observation
\* unchanged, followed by sin and cos of WD_10m and WD_100m, the square and
\* cube of WS_10m and WS_100m, Temp_2m * RelHum_2m, Temp_2m - DP_2m and
\* WS_100m - WS_10m, all computed from that observation's raw fields.
C11_DerivedFeatures ==
    \A j \in DOMAIN UnscaledCalls :
        UnscaledCalls[j].row = ExpectedRow(req.body.items[j].val)

\* the example: WD_10m = 90, WS_10m = 2, WS_100m = 5, Temp_2m = 20,
\* RelHum_2m = 50, DP_2m = 10 gives sin 1, cos 0, 4, 8, 25, 125, 1000, 10, 3
C11_Witness ==
    /\ Done
    /\ SingleObject
    /\ Complete(req.body.items[1])
    /\ req.body.items[1].val["WD_10m"] = 90
    /\ req.body.items[1].val["WS_10m"] = 2
    /\ Len(fed) = 2
    /\ fed[1].callee = "scaler"
    /\ SubSeq(fed[1].row, 15, 16) = <<1000, 0>>
    /\ SubSeq(fed[1].row, 19, 25) = <<4, 8, 25, 125, 1000, 10, 3>>

\* the calls of model.predict, in order: in a success response the i-th
\* belongs to the i-th object of the request
ModelCalls == SelectSeq(fed, LAMBDA c : c.callee = "model")

\* the model's output for the row of its i-th call
Raw(i) == ModelPredict(model, ModelCalls[i].row)

PredictionAnswered ==
    /\ Done
    /\ model # None
    /\ resp.status = 200
    /\ resp.kind \in {"prediction", "batch"}

\* C12: each value of a success response made by a model is its raw output
\* bounded to [0.0, 1.0]: raw itself when 0.0 <= raw <= 1.0, 1.0 when raw is
\* above, 0.0 when raw is below, for the one row of /api/predict and for
\* every row of /api/predict-batch; the row the model is given is the
\* feature row, scaled when a scaler is in place, and not bounded.
C12_Clamp ==
    PredictionAnswered
        => /\ Len(ModelCalls) = Len(resp.predictions)
           /\ Len(resp.predictions) = Len(req.body.items)
           /\ \A i \in DOMAIN resp.predictions :
                 /\ (0 <= Raw(i) /\ Raw(i) <= 1000) => resp.predictions[i] = Raw(i)
                 /\ Raw(i) > 1000 => resp.predictions[i] = 1000
                 /\ Raw(i) < 0 => resp.predictions[i] = 0
                 /\ ModelCalls[i].row =
                        IF scaler = None THEN ExpectedRow(req.body.items[i].val)
                        ELSE ScalerTransform(scaler, ExpectedRow(req.body.items[i].val))

\* a batch answered with one value brought down to 1.0 or up to 0.0 and
\* one left as the model gave it
C12_Witness ==
    /\ PredictionAnswered
    /\ req.endpoint = "predict_batch"
    /\ Len(resp.predictions) = 2
    /\ \E i, k \in 1..2 :
          /\ Raw(i) < 0
          /\ resp.predictions[i] = 0
          /\ 0 < Raw(k)
          /\ Raw(k) < 1000
          /\ resp.predictions[k] = Raw(k)

\* C13: whenever a request can be served, by app.py or by the Drive-backed
\* app, the model handle and the scaler handle are both loaded or both None;
\* so no answer of /api/predict or /api/predict-batch comes from a model
\* given a row that no scaler was asked for (the scaler-bypass branch).
C13_HandlesPaired ==
    pc = "serving"
        => /\ (model = None) <=> (scaler = None)
           /\ \A i \in DOMAIN fed :
                 fed[i].callee = "model"
                    => (i > 1 /\ fed[i - 1].callee = "scaler"
                              /\ fed[i].row = ScalerTransform(scaler, fed[i - 1].row))

\* app.py serving after load_model found a file missing: both handles are
\* None and /api/predict answers from the demo branch
C13_Witness ==
    /\ Done
    /\ app = "local"
    /\ model = None
    /\ scaler = None
    /\ SingleObject
    /\ resp.status = 200
    /\ resp.kind = "prediction"

BothLoaded == model # None /\ scaler # None

\* C14: in the Drive-backed app, /api/health answers 200 "healthy" with
\* model_loaded true exactly when model and scaler are both loaded and 503
\* "unhealthy" otherwise; /api/predict answers 503 exactly when they are not
\* both loaded, whatever the request body is (empty, missing fields or
\* complete), without validating it and without calling scaler or model.
C14_HealthAgreesWithPredict ==
    (Done /\ app = "drive")
        => /\ req.endpoint = "health"
                => /\ (resp.status = 200) <=> BothLoaded
                   /\ (resp.status = 503) <=> ~BothLoaded
                   /\ (resp.body_status = "healthy") <=> BothLoaded
                   /\ (resp.body_status = "unhealthy") <=> ~BothLoaded
                   /\ resp.model_loaded <=> BothLoaded
           /\ req.endpoint = "predict"
                => /\ (resp.status = 503) <=> ~BothLoaded
                   /\ resp.status = 503
                        => /\ fed = <<>>
                           /\ resp.names = <<>>
                           /\ resp.error = "Model not loaded. Please check server logs."

\* the Drive-backed app serving with nothing loaded answers 503 to a
\* prediction request that lacks required fields
C14_Witness ==
    /\ Done
    /\ app = "drive"
    /\ ~BothLoaded
    /\ SingleObject
    /\ Absent(req.body.items[1]) # {}
    /\ resp.status = 503

====
